---- MODULE Spec2Model ----
(***************************************************************************)
(* A state-machine model of main.py of automated_email_report_sender: the  *)
(* command-line dispatch (main), the report pipeline (build_and_send and   *)
(* the stages it calls) and the mail step (send_email).                    *)
(*                                                                         *)
(* Text is a sequence of one-character strings.  Money is an integer       *)
(* number of cents (the float arithmetic of pandas is not modelled).  The  *)
(* wall clock (generated_at) is not modelled.                              *)
(***************************************************************************)
EXTENDS Integers, Sequences, FiniteSets, TLC

\* ------------------------------------------------------------------ bounds
MaxRows == 2
MaxRuns == 2
MaxTitleLen == 2

\* ------------------------------------------------------------ environment
Unset == [set |-> FALSE]
Val(v) == [set |-> TRUE, val |-> v]

EnvNames ==
  {"REPORT_TITLE", "ENABLE_PDF", "SCHEDULE_TIME", "SMTP_HOST", "SMTP_PORT",
   "SMTP_USER", "SMTP_PASS", "MAIL_FROM", "MAIL_TO"}

\* os.getenv(name, default) on an environment e; None is Unset.
getenv(e, name, default) == IF e[name].set THEN e[name] ELSE default

\* Python truthiness of an optional string: None and "" are false.
Truthy(x) == x.set /\ x.val /= ""

\* str.lower() on the ENABLE_PDF values of the model.
lower(s) ==
  CASE s = "TRUE" -> "true"
    [] s = "True" -> "true"
    [] OTHER -> s

\* str.split(",") on the address strings of the model.
split(s) ==
  CASE s = "a@x, b@x" -> <<"a@x", " b@x">>
    [] OTHER -> <<s>>

\* str.strip() on the address segments of the model.
strip(s) ==
  CASE s = " b@x" -> "b@x"
    [] s = " " -> ""
    [] OTHER -> s

\* [x.strip() for x in xs if x.strip()]
RECURSIVE StripNonEmpty(_)
StripNonEmpty(xs) ==
  IF xs = <<>> THEN <<>>
  ELSE IF strip(Head(xs)) = "" THEN StripNonEmpty(Tail(xs))
       ELSE <<strip(Head(xs))>> \o StripNonEmpty(Tail(xs))

DefaultTitle == <<"S", "a", "l", "e", "s", " ", "R", "e", "p", "o", "r", "t">>

\* -------------------------------------------------------------- the table
Columns == {"date", "orders", "revenue"}
Dates == {1, 2}
OrdersValues == {1, 2}
RevenueValues == {0, 25000, 123450}
Records == [date : Dates, orders : OrdersValues, revenue : RevenueValues]

RECURSIVE SeqsUpTo(_, _)
SeqsUpTo(S, n) ==
  IF n = 0 THEN {<<>>}
  ELSE LET shorter == SeqsUpTo(S, n - 1)
       IN shorter \cup {Append(s, x) : s \in {t \in shorter : Len(t) = n - 1}, x \in S}

\* A row of a file that has only the columns cols.
Project(r, cols) == [c \in cols |-> r[c]]
ProjectRows(rows, cols) == [i \in 1..Len(rows) |-> Project(rows[i], cols)]

\* Series.sum() of a column, a left fold in row order.
RECURSIVE ColumnSum(_, _)
ColumnSum(rows, col) ==
  IF rows = <<>> THEN 0
  ELSE ColumnSum(SubSeq(rows, 1, Len(rows) - 1), col) + rows[Len(rows)][col]

\* df.sort_values("revenue", ascending=False): the default sort kind is
\* quicksort, which is not stable, so rows of equal revenue may come out in
\* any order.  The positions that can be at .iloc[0] are the rows of maximal
\* revenue.
SortedFirst(rows) ==
  {i \in 1..Len(rows) : \A j \in 1..Len(rows) : rows[j].revenue <= rows[i].revenue}

\* ------------------------------------------------------------- formatting
Digit(d) == <<"0", "1", "2", "3", "4", "5", "6", "7", "8", "9">>[d + 1]

RECURSIVE Digits(_)
Digits(n) == IF n < 10 THEN <<Digit(n)>> ELSE Append(Digits(n \div 10), Digit(n % 10))

\* The "," option of the format spec: a comma before every group of three
\* digits, counted from the right.
RECURSIVE Grouped(_)
Grouped(n) ==
  IF n < 1000 THEN Digits(n)
  ELSE Grouped(n \div 1000) \o <<",">> \o
       <<Digit((n \div 100) % 10), Digit((n \div 10) % 10), Digit(n % 10)>>

\* f"${x:,.2f}" of an amount of c cents.
Currency(c) ==
  <<"$">> \o Grouped(c \div 100) \o <<".">> \o <<Digit((c \div 10) % 10), Digit(c % 10)>>

\* --------------------------------------------------------------- template
TemplateName == <<"report", "html", "j2">>

\* select_autoescape() with its defaults: on for a template name that ends
\* with .html, .htm or .xml, off for any other name.  A name is its
\* dot-separated parts.
select_autoescape(name) ==
  Len(name) >= 2 /\ name[Len(name)] \in {"html", "htm", "xml"}

\* markupsafe.escape of one character.
EscapeChar(c) ==
  CASE c = "&" -> <<"&", "a", "m", "p", ";">>
    [] c = "<" -> <<"&", "l", "t", ";">>
    [] c = ">" -> <<"&", "g", "t", ";">>
    [] c = "'" -> <<"&", "#", "3", "9", ";">>
    [] c = "\"" -> <<"&", "#", "3", "4", ";">>
    [] OTHER -> <<c>>

RECURSIVE Escape(_)
Escape(s) == IF s = <<>> THEN <<>> ELSE EscapeChar(Head(s)) \o Escape(Tail(s))

\* {{ value }} in a template of the environment of render_html.
Interpolate(name, s) == IF select_autoescape(name) THEN Escape(s) ELSE s

\* {{ placeholder }} substitution of report.html.j2 on the keyword arguments
\* of template.render.
TemplateRender(name, c) ==
  [title |-> Interpolate(name, c.title),
   chart_path |-> c.chart_path,
   total_orders |-> c.total_orders,
   total_revenue |-> Interpolate(name, c.total_revenue),
   best_day |-> [date |-> Interpolate(name, c.best_day.date),
                 revenue |-> Interpolate(name, c.best_day.revenue)],
   rows |-> [i \in 1..Len(c.rows) |->
               [date |-> Interpolate(name, c.rows[i].date),
                orders |-> c.rows[i].orders,
                revenue |-> Interpolate(name, c.rows[i].revenue)]]]

\* d.strftime("%Y-%m-%d"); day d of the model is the d-th of January 2024.
DateText(d) == <<"2", "0", "2", "4", "-", "0", "1", "-", "0", Digit(d)>>

\* ------------------------------------------------------------------ state
VARIABLES
  args,         \* the parsed command line: [send_now, schedule]
  env,          \* the process environment after load_env
  csv,          \* data/sample_sales.csv: [exists, cols, rows]
  pc,           \* where the process is
  err,          \* the exception in flight, "none" if none
  exitStatus,   \* -1 while the process runs, then its exit status
  stdout,       \* what main printed
  runs,         \* calls of build_and_send so far
  runLog,       \* how each finished call of build_and_send ended
  stages,       \* the stages the current call of build_and_send entered
  df,           \* build_and_send: the loaded table
  html,         \* build_and_send: the rendered report
  ctx,          \* render_html: the keyword arguments of template.render
  attachments,  \* build_and_send: the attachment list
  outDir,       \* whether out/ exists
  files,        \* the files of out/, by name
  sendCalls,    \* the arguments of every call of send_email
  smtpConns,    \* SMTP connections opened
  mailbox       \* the messages handed to the relay

vars ==
  <<args, env, csv, pc, err, exitStatus, stdout, runs, runLog, stages, df, html,
    ctx, attachments, outDir, files, sendCalls, smtpConns, mailbox>>

inputs == <<args, env, csv>>
locals == <<df, html, ctx, attachments>>
world == <<outDir, files, sendCalls, smtpConns, mailbox>>

ChartName == "revenue_chart.png"
HtmlName == "report.html"
PdfName == "report.pdf"

\* The stages of build_and_send, as values of pc.
RunPcs ==
  {"read_data", "makedirs", "make_chart", "render_html", "write_html",
   "attach_chart", "export_pdf", "attach_pdf", "send_email", "run_done"}

\* An exception leaves the current stage.
Raise(e) == pc' = "raised" /\ err' = e

Enter(stage) == stages' = Append(stages, stage)

\* The entry of build_and_send: fresh locals.
StartRun ==
  /\ pc' = "read_data"
  /\ runs' = runs + 1
  /\ stages' = <<>>
  /\ df' = Unset
  /\ html' = Unset
  /\ ctx' = Unset
  /\ attachments' = <<>>

\* ------------------------------------------------------------- dispatch
Mode == IF args.send_now THEN "send_now" ELSE IF args.schedule THEN "schedule" ELSE "usage"

\* A slip main could have: the usage branch falls into the pipeline.
mainRunsWithoutFlags ==
  /\ pc = "main"
  /\ IF args.schedule /\ ~args.send_now
     THEN /\ pc' = "sched_loop"
          /\ stdout' = Append(stdout, "Scheduler running.")
          /\ UNCHANGED <<runs, stages, locals, exitStatus>>
     ELSE /\ StartRun
          /\ UNCHANGED <<stdout, exitStatus>>
  /\ UNCHANGED <<inputs, world, err, runLog>>

\* main, after load_env and parse_args.
main ==
  /\ pc = "main"
  /\ IF args.send_now
     THEN /\ StartRun
          /\ UNCHANGED <<stdout, exitStatus>>
     ELSE IF args.schedule
     THEN /\ pc' = "sched_loop"
          /\ stdout' = Append(stdout, "Scheduler running.")
          /\ UNCHANGED <<runs, stages, locals, exitStatus>>
     ELSE /\ pc' = "exited"
          /\ exitStatus' = 0
          /\ stdout' = Append(stdout, "usage")
          /\ UNCHANGED <<runs, stages, locals>>
  /\ UNCHANGED <<inputs, world, err, runLog>>

\* schedule.run_pending() when the daily job is due.
run_pending ==
  /\ pc = "sched_loop"
  /\ runs < MaxRuns
  /\ StartRun
  /\ UNCHANGED <<inputs, world, err, exitStatus, stdout, runLog>>

\* build_and_send returns: to main after --send-now, to the loop otherwise.
run_returns ==
  /\ pc = "run_done"
  /\ runLog' = Append(runLog, "ok")
  /\ IF Mode = "send_now"
     THEN /\ pc' = "exited"
          /\ exitStatus' = 0
          /\ stdout' = Append(stdout, "Report generated and email sent.")
     ELSE /\ pc' = "sched_loop"
          /\ UNCHANGED <<exitStatus, stdout>>
  /\ UNCHANGED <<inputs, world, locals, err, runs, stages>>

\* A slip the loop could have: a failed run is logged and the loop goes on.
propagateCaughtInLoop ==
  /\ pc = "raised"
  /\ runLog' = Append(runLog, err)
  /\ IF Mode = "schedule"
     THEN /\ pc' = "sched_loop"
          /\ UNCHANGED exitStatus
     ELSE /\ pc' = "exited"
          /\ exitStatus' = 1
  /\ UNCHANGED <<inputs, world, locals, err, runs, stages, stdout>>

\* An exception no handler catches leaves build_and_send, the loop and main:
\* the interpreter prints the traceback and exits with status 1.
propagate ==
  /\ pc = "raised"
  /\ runLog' = Append(runLog, err)
  /\ pc' = "exited"
  /\ exitStatus' = 1
  /\ UNCHANGED <<inputs, world, locals, err, runs, stages, stdout>>

\* Ctrl+C: caught by the except clause around the loop, uncaught elsewhere.
KeyboardInterrupt ==
  /\ pc \in RunPcs \cup {"sched_loop"}
  /\ IF Mode = "schedule"
     THEN /\ pc' = "exited"
          /\ exitStatus' = 0
          /\ stdout' = Append(stdout, "Stopped.")
          /\ runLog' = IF pc \in RunPcs THEN Append(runLog, "KeyboardInterrupt") ELSE runLog
          /\ UNCHANGED err
     ELSE /\ Raise("KeyboardInterrupt")
          /\ UNCHANGED <<exitStatus, stdout, runLog>>
  /\ UNCHANGED <<inputs, world, locals, runs, stages>>

\* --------------------------------------------------------------- pipeline
WriteFile(fs, name, content) ==
  [n \in DOMAIN fs \cup {name} |-> IF n = name THEN content ELSE fs[n]]

Title == getenv(env, "REPORT_TITLE", Val(DefaultTitle)).val

\* pd.read_csv(data_path, parse_dates=["date"]): what it raises, if anything.
\* Only the date column is named, so only its absence is noticed here.
ReadCsvError(f) ==
  IF ~f.exists THEN "FileNotFoundError"
  ELSE IF f.cols = {} THEN "EmptyDataError"
  ELSE IF "date" \notin f.cols THEN "ValueError"
  ELSE "none"

read_data ==
  /\ pc = "read_data"
  /\ Enter("read_data")
  /\ IF ReadCsvError(csv) /= "none"
     THEN /\ Raise(ReadCsvError(csv))
          /\ UNCHANGED df
     ELSE /\ pc' = "makedirs"
          /\ df' = Val([cols |-> csv.cols, rows |-> ProjectRows(csv.rows, csv.cols)])
          /\ UNCHANGED err
  /\ UNCHANGED <<inputs, world, html, ctx, attachments, exitStatus, stdout, runs, runLog>>

\* os.makedirs(out_dir, exist_ok=True)
makedirs ==
  /\ pc = "makedirs"
  /\ Enter("makedirs")
  /\ \E ok \in BOOLEAN :
       IF ok
       THEN /\ pc' = "make_chart"
            /\ outDir' = TRUE
            /\ UNCHANGED err
       ELSE /\ Raise("OSError")
            /\ UNCHANGED outDir
  /\ UNCHANGED <<inputs, locals, files, sendCalls, smtpConns, mailbox, exitStatus, stdout,
                 runs, runLog>>

\* The columns make_chart reads, in the order it reads them.
MakeChartError(d) ==
  IF "date" \notin d.cols \/ "revenue" \notin d.cols THEN "KeyError" ELSE "none"

\* The image of the line plot: the plotted points, in table order.
ChartBytes(d) ==
  [png |-> [i \in 1..Len(d.rows) |-> <<d.rows[i].date, d.rows[i].revenue>>]]

make_chart ==
  /\ pc = "make_chart"
  /\ Enter("make_chart")
  /\ IF MakeChartError(df.val) /= "none"
     THEN /\ Raise(MakeChartError(df.val))
          /\ UNCHANGED files
     ELSE \E ok \in BOOLEAN :
            IF ok
            THEN /\ pc' = "render_html"
                 /\ files' = WriteFile(files, ChartName, ChartBytes(df.val))
                 /\ UNCHANGED err
            ELSE /\ Raise("OSError")
                 /\ UNCHANGED files
  /\ UNCHANGED <<inputs, locals, outDir, sendCalls, smtpConns, mailbox, exitStatus, stdout,
                 runs, runLog>>

\* The columns render_html reads before it sorts.
RenderHtmlError(d) ==
  IF "orders" \notin d.cols \/ "revenue" \notin d.cols THEN "KeyError" ELSE "none"

Returned(v) == [ok |-> TRUE, val |-> v]
Raised(e) == [ok |-> FALSE, err |-> e]

\* A slip best_row could have: a default row for an empty table.
best_row_default(rows) ==
  IF rows = <<>>
  THEN {Returned([date |-> 1, orders |-> 0, revenue |-> 0])}
  ELSE {Returned(rows[i]) : i \in SortedFirst(rows)}

\* df.sort_values("revenue", ascending=False).iloc[0]: every outcome it can
\* have.  Position 0 of an empty frame is out of bounds.
best_row(rows) ==
  IF rows = <<>>
  THEN {Raised("IndexError")}
  ELSE {Returned(rows[i]) : i \in SortedFirst(rows)}

\* df.drop_duplicates("date"): the first row of every date.
RECURSIVE FirstOfEachDate(_)
FirstOfEachDate(rows) ==
  IF rows = <<>> THEN <<>>
  ELSE LET init == SubSeq(rows, 1, Len(rows) - 1)
           last == rows[Len(rows)]
       IN IF \E j \in 1..Len(init) : init[j].date = last.date
          THEN FirstOfEachDate(init)
          ELSE Append(FirstOfEachDate(init), last)

\* A slip the totals could have: one row per date is counted.
TotalPerDate(rows, col) == ColumnSum(FirstOfEachDate(rows), col)

\* df[col].sum()
Total(rows, col) == ColumnSum(rows, col)

\* The keyword arguments of template.render.
Context(d, title, best) ==
  [title |-> title,
   chart_path |-> ChartName,
   total_orders |-> Total(d.rows, "orders"),
   total_revenue |-> Currency(Total(d.rows, "revenue")),
   best_day |-> [date |-> DateText(best.date), revenue |-> Currency(best.revenue)],
   rows |-> [i \in 1..Len(d.rows) |->
               [date |-> DateText(d.rows[i].date),
                orders |-> d.rows[i].orders,
                revenue |-> Currency(d.rows[i].revenue)]]]

render_html ==
  /\ pc = "render_html"
  /\ Enter("render_html")
  /\ \E found \in BOOLEAN :
       IF ~found
       THEN /\ Raise("TemplateNotFound")
            /\ UNCHANGED <<ctx, html>>
       ELSE IF RenderHtmlError(df.val) /= "none"
       THEN /\ Raise(RenderHtmlError(df.val))
            /\ UNCHANGED <<ctx, html>>
       ELSE \E best \in best_row(df.val.rows) :
              IF ~best.ok
              THEN /\ Raise(best.err)
                   /\ UNCHANGED <<ctx, html>>
              ELSE /\ ctx' = Val(Context(df.val, Title, best.val))
                   /\ html' = Val(TemplateRender(TemplateName, Context(df.val, Title, best.val)))
                   /\ pc' = "write_html"
                   /\ UNCHANGED err
  /\ UNCHANGED <<inputs, world, df, attachments, exitStatus, stdout, runs, runLog>>

\* open(html_path, "w").write(html)
write_html ==
  /\ pc = "write_html"
  /\ Enter("write_html")
  /\ \E ok \in BOOLEAN :
       IF ok
       THEN /\ pc' = "attach_chart"
            /\ files' = WriteFile(files, HtmlName, html.val)
            /\ UNCHANGED err
       ELSE /\ Raise("OSError")
            /\ UNCHANGED files
  /\ UNCHANGED <<inputs, locals, outDir, sendCalls, smtpConns, mailbox, exitStatus, stdout,
                 runs, runLog>>

\* ENABLE_PDF, read after the chart is attached.
enable_pdf == lower(getenv(env, "ENABLE_PDF", Val("true")).val) = "true"

\* attachments = [] and the chart appended to it; then the ENABLE_PDF branch.
attach_chart ==
  /\ pc = "attach_chart"
  /\ Enter("attach_chart")
  /\ IF ChartName \in DOMAIN files
     THEN /\ attachments' = Append(<<>>, <<ChartName, files[ChartName], "image/png">>)
          /\ pc' = IF enable_pdf THEN "export_pdf" ELSE "send_email"
          /\ UNCHANGED err
     ELSE /\ Raise("FileNotFoundError")
          /\ UNCHANGED attachments
  /\ UNCHANGED <<inputs, world, df, html, ctx, exitStatus, stdout, runs, runLog>>

\* The one-page document: the title and the chart image read from its file.
PdfBytes(title, chart) == [pdf |-> [title |-> title, image |-> chart]]

\* A slip export_pdf could have: a failed export is skipped and the run goes on.
export_pdf_best_effort ==
  /\ pc = "export_pdf"
  /\ Enter("export_pdf")
  /\ \E ok \in BOOLEAN :
       IF ok /\ ChartName \in DOMAIN files
       THEN /\ pc' = "attach_pdf"
            /\ files' = WriteFile(files, PdfName, PdfBytes(Title, files[ChartName]))
       ELSE /\ pc' = "send_email"
            /\ UNCHANGED files
  /\ UNCHANGED <<inputs, locals, outDir, sendCalls, smtpConns, mailbox, exitStatus, stdout,
                 runs, runLog, err>>

export_pdf ==
  /\ pc = "export_pdf"
  /\ Enter("export_pdf")
  /\ \E ok \in BOOLEAN :
       IF ok /\ ChartName \in DOMAIN files
       THEN /\ pc' = "attach_pdf"
            /\ files' = WriteFile(files, PdfName, PdfBytes(Title, files[ChartName]))
            /\ UNCHANGED err
       ELSE /\ Raise("OSError")
            /\ UNCHANGED files
  /\ UNCHANGED <<inputs, locals, outDir, sendCalls, smtpConns, mailbox, exitStatus, stdout,
                 runs, runLog>>

\* A slip attach_pdf could have: the PDF is put in front of the chart.
attach_pdf_in_front ==
  /\ pc = "attach_pdf"
  /\ Enter("attach_pdf")
  /\ attachments' = <<<<PdfName, files[PdfName], "application/pdf">>>> \o attachments
  /\ pc' = "send_email"
  /\ UNCHANGED <<inputs, world, df, html, ctx, exitStatus, stdout, runs, runLog, err>>

\* The PDF read back and appended.
attach_pdf ==
  /\ pc = "attach_pdf"
  /\ Enter("attach_pdf")
  /\ attachments' = Append(attachments, <<PdfName, files[PdfName], "application/pdf">>)
  /\ pc' = "send_email"
  /\ UNCHANGED <<inputs, world, df, html, ctx, exitStatus, stdout, runs, runLog, err>>

\* ------------------------------------------------------------------- mail
\* What send_email raises before it builds the message, if anything, in the
\* order of its statements: .split of the recipients, then the credentials
\* test.  SMTP_PORT, when set, is a decimal number, so int() succeeds.
SendEmailError(e) ==
  LET smtp_host == getenv(e, "SMTP_HOST", Unset)
      smtp_user == getenv(e, "SMTP_USER", Unset)
      smtp_pass == getenv(e, "SMTP_PASS", Unset)
      mail_to == getenv(e, "MAIL_TO", smtp_user)
  IN IF ~mail_to.set THEN "AttributeError"
     ELSE IF ~(Truthy(smtp_host) /\ Truthy(smtp_user) /\ Truthy(smtp_pass)) THEN "RuntimeError"
     ELSE "none"

\* The EmailMessage send_email composes.
Message(e, subject, html_body, atts) ==
  [Subject |-> subject,
   From |-> getenv(e, "MAIL_FROM", getenv(e, "SMTP_USER", Unset)).val,
   To |-> StripNonEmpty(split(getenv(e, "MAIL_TO", getenv(e, "SMTP_USER", Unset)).val)),
   html |-> html_body,
   attachments |-> atts]

\* What the relay can answer once a connection is attempted.
SmtpOutcomes == {"sent", "ConnectionRefusedError", "SMTPAuthenticationError", "SMTPDataError"}

\* send_email(subject, html, attachments), called at the end of build_and_send.
send_email ==
  /\ pc = "send_email"
  /\ Enter("send_email")
  /\ sendCalls' = Append(sendCalls, [subject |-> Title, html_body |-> html.val,
                                     attachments |-> attachments])
  /\ IF SendEmailError(env) /= "none"
     THEN /\ Raise(SendEmailError(env))
          /\ UNCHANGED <<smtpConns, mailbox>>
     ELSE \E o \in SmtpOutcomes :
            /\ smtpConns' = smtpConns + 1
            /\ IF o = "sent"
               THEN /\ mailbox' = Append(mailbox, Message(env, Title, html.val, attachments))
                    /\ pc' = "run_done"
                    /\ UNCHANGED err
               ELSE /\ Raise(o)
                    /\ UNCHANGED mailbox
  /\ UNCHANGED <<inputs, locals, outDir, files, exitStatus, stdout, runs, runLog>>

\* ---------------------------------------------------------- specifications
ArgsSet == [send_now : BOOLEAN, schedule : BOOLEAN]

MkEnv(title, pdf, host, port, user, pass, from, to) ==
  [n \in EnvNames |->
     CASE n = "REPORT_TITLE" -> title
       [] n = "ENABLE_PDF" -> pdf
       [] n = "SMTP_HOST" -> host
       [] n = "SMTP_PORT" -> port
       [] n = "SMTP_USER" -> user
       [] n = "SMTP_PASS" -> pass
       [] n = "MAIL_FROM" -> from
       [] n = "MAIL_TO" -> to
       [] OTHER -> Unset]

Optional(S) == {Unset} \cup {Val(v) : v \in S}

TitleChars == {"A", "&", "<"}
Titles == Optional(SeqsUpTo(TitleChars, MaxTitleLen))
PdfFlags == Optional({"true", "TRUE", "false", "1"})

\* A complete, working mail configuration.
GoodMailEnv(title, pdf) ==
  MkEnv(title, pdf, Val("smtp.x"), Unset, Val("u@x"), Val("secret"), Unset,
        Val("a@x, b@x"))

Tables == SeqsUpTo(Records, MaxRows)

GoodCsv(rows) == [exists |-> TRUE, cols |-> Columns, rows |-> rows]

SampleRows ==
  <<[date |-> 1, orders |-> 1, revenue |-> 25000],
    [date |-> 2, orders |-> 2, revenue |-> 123450]>>

\* Files with a column missing, a blank file, no file.
BrokenCsvs ==
  {[exists |-> TRUE, cols |-> c, rows |-> SampleRows] :
     c \in {{"date", "orders"}, {"date", "revenue"}, {"orders", "revenue"}, {}}}
  \cup {[exists |-> FALSE, cols |-> {}, rows |-> <<>>]}

InitWith(Envs, Csvs) ==
  /\ args \in ArgsSet
  /\ env \in Envs
  /\ csv \in Csvs
  /\ pc = "main"
  /\ err = "none"
  /\ exitStatus = -1
  /\ stdout = <<>>
  /\ runs = 0
  /\ runLog = <<>>
  /\ stages = <<>>
  /\ df = Unset
  /\ html = Unset
  /\ ctx = Unset
  /\ attachments = <<>>
  /\ outDir \in BOOLEAN
  /\ files = << >>
  /\ sendCalls = <<>>
  /\ smtpConns = 0
  /\ mailbox = <<>>

Next ==
  \/ main
  \/ run_pending
  \/ run_returns
  \/ propagate
  \/ KeyboardInterrupt
  \/ read_data
  \/ makedirs
  \/ make_chart
  \/ render_html
  \/ write_html
  \/ attach_chart
  \/ export_pdf
  \/ attach_pdf
  \/ send_email

\* The pipeline and the dispatch: every kind of data file, PDF on and off.
Init ==
  InitWith({GoodMailEnv(t, p) : t \in {Unset, Val(<<"A", "&">>)}, p \in PdfFlags},
           BrokenCsvs \cup {GoodCsv(SubSeq(SampleRows, 1, n)) : n \in 0..2})
Spec == Init /\ [][Next]_vars

\* The metrics: every table within the bounds.
InitMetrics ==
  InitWith({GoodMailEnv(Unset, Unset)}, {GoodCsv(t) : t \in Tables})
SpecMetrics == InitMetrics /\ [][Next]_vars

\* The rendering: every title within the bounds.
InitRender ==
  InitWith({GoodMailEnv(t, Unset) : t \in Titles}, {GoodCsv(SampleRows)})
SpecRender == InitRender /\ [][Next]_vars

\* The mail step: every combination of the mail settings.
InitMail ==
  InitWith({MkEnv(Unset, pdf, host, port, user, pass, from, to) :
              pdf \in {Unset, Val("false")},
              host \in Optional({"", "smtp.x"}),
              port \in Optional({"25"}),
              user \in Optional({"", "u@x"}),
              pass \in Optional({"", "secret"}),
              from \in Optional({"r@x"}),
              to \in Optional({"", "a@x, b@x"})},
           {GoodCsv(SampleRows)})
SpecMail == InitMail /\ [][Next]_vars

\* ------------------------------------------------------------- properties
Last(q) == q[Len(q)]
Count(q, x) == Cardinality({i \in 1..Len(q) : q[i] = x})
Entered(stage) == \E i \in 1..Len(stages) : stages[i] = stage

RECURSIVE SumOver(_, _)
SumOver(f, I) ==
  IF I = {} THEN 0
  ELSE LET i == CHOOSE k \in I : TRUE IN f[i] + SumOver(f, I \ {i})

\* The stages of a run that got as far as send_email.
CompleteRun ==
  <<"read_data", "makedirs", "make_chart", "render_html", "write_html", "attach_chart">>
  \o (IF enable_pdf THEN <<"export_pdf", "attach_pdf">> ELSE <<>>)
  \o <<"send_email">>

\* C1: every attachment list passed to send_email is the chart alone when
\* PDF export is off, and the chart followed by the PDF when it is on, each
\* with its file name, the bytes of its file and its MIME type.
C1_AttachmentsExact ==
  \A k \in 1..Len(sendCalls) :
    LET chart == <<"revenue_chart.png", files["revenue_chart.png"], "image/png">>
    IN IF enable_pdf
       THEN sendCalls[k].attachments =
              <<chart, <<"report.pdf", files["report.pdf"], "application/pdf">>>>
       ELSE sendCalls[k].attachments = <<chart>>

C1_Witness ==
  /\ Len(sendCalls) = 1
  /\ Len(sendCalls[1].attachments) = 2
  /\ sendCalls[1].attachments[2][1] = "report.pdf"

\* C2: send_email is entered at most once per run and only after every
\* earlier stage of the run completed; a message is handed to the relay only
\* by a run that raised nothing, it carries the PDF when PDF export is on,
\* and an exception ends the process with a non-zero status.
C2_AllOrNothing ==
  /\ Count(stages, "send_email") <= 1
  /\ Len(sendCalls) <= runs
  /\ Entered("send_email") =>
       /\ stages = CompleteRun
       /\ df.set /\ html.set
       /\ {"revenue_chart.png", "report.html"} \subseteq DOMAIN files
       /\ enable_pdf => "report.pdf" \in DOMAIN files
  /\ Len(mailbox) <= Len(sendCalls)
  /\ ~Entered("send_email") => Len(mailbox) = Count(runLog, "ok")
  /\ \A k \in 1..Len(mailbox) :
       enable_pdf => \E a \in 1..Len(mailbox[k].attachments) :
                       mailbox[k].attachments[a][1] = "report.pdf"
  /\ (pc = "exited" /\ err /= "none") => exitStatus = 1

C2_Witness ==
  /\ pc = "exited"
  /\ stages /= <<>> /\ Last(stages) = "export_pdf"
  /\ err = "OSError"
  /\ exitStatus = 1
  /\ sendCalls = <<>>
  /\ mailbox = <<>>

\* C3: with a data file that has no revenue column, read_data is the only
\* stage ever entered: the failure is raised there, before out/ is created
\* and before make_chart starts.
C3_MissingRevenueFailsInReadData ==
  (csv.exists /\ csv.cols /= {} /\ "revenue" \notin csv.cols) =>
    /\ \A i \in 1..Len(stages) : stages[i] = "read_data"
    /\ pc \notin RunPcs \ {"read_data"}

\* C4: a run over a table of zero records never has template arguments or a
\* rendered report, never writes the report or sends mail, and render_html
\* ends it with the out-of-bounds error of the empty table unless the
\* template was not found first.
C4_EmptyTableFails ==
  (df.set /\ df.val.rows = <<>>) =>
    /\ ~ctx.set /\ ~html.set
    /\ pc \notin {"write_html", "attach_chart", "export_pdf", "attach_pdf", "send_email",
                  "run_done"}
    /\ "report.html" \notin DOMAIN files
    /\ sendCalls = <<>> /\ mailbox = <<>>
    /\ Entered("render_html") =>
         /\ pc \in {"raised", "exited"}
         /\ err \in {"IndexError", "TemplateNotFound"}

C4_Witness ==
  /\ df.set /\ df.val.rows = <<>>
  /\ stages /= <<>> /\ Last(stages) = "render_html"
  /\ err = "IndexError"
  /\ pc = "exited"
  /\ "revenue_chart.png" \in DOMAIN files

C6_TitleEscaped == html.set => html.val.title = Escape(Title)

\* C7: the total_orders given to the template is the sum of the orders of
\* all rows and total_revenue is the currency form of the sum of their
\* revenue, whatever the order of the rows and with dates repeated.
C7_TotalsAreSums ==
  ctx.set =>
    LET rows == df.val.rows
        n == Len(rows)
    IN /\ n > 0
       /\ ctx.val.total_orders = SumOver([i \in 1..n |-> rows[i].orders], 1..n)
       /\ ctx.val.total_revenue =
            Currency(SumOver([i \in 1..n |-> rows[i].revenue], 1..n))

C7_Witness ==
  /\ ctx.set
  /\ Len(df.val.rows) = 2
  /\ df.val.rows[1].date = df.val.rows[2].date
  /\ df.val.rows[1].revenue > df.val.rows[2].revenue
  /\ ctx.val.total_orders = 3
  /\ ctx.val.total_revenue = <<"$", "1", ",", "4", "8", "4", ".", "5", "0">>

\* C8: with --send-now build_and_send runs once and the process ends with
\* status 0, or 1 when the run raised; with --schedule alone the loop is
\* entered; with no flag usage is printed, the status is 0, and nothing is
\* run or sent.
C8_Dispatch ==
  /\ Mode = "send_now" =>
       /\ pc /= "sched_loop"
       /\ runs = (IF pc = "main" THEN 0 ELSE 1)
       /\ pc = "exited" =>
            /\ exitStatus = (IF err = "none" THEN 0 ELSE 1)
            /\ err = "none" <=> runLog = <<"ok">>
  /\ (Mode = "schedule" /\ pc /= "main") =>
       /\ Head(stdout) = "Scheduler running."
       /\ Count(stdout, "usage") = 0
  /\ Mode = "usage" =>
       /\ pc \in {"main", "exited"}
       /\ runs = 0 /\ stages = <<>> /\ sendCalls = <<>> /\ mailbox = <<>>
       /\ pc = "exited" => (exitStatus = 0 /\ stdout = <<"usage">>)

C8_Witness ==
  /\ Mode = "send_now"
  /\ pc = "exited"
  /\ exitStatus = 0
  /\ runs = 1
  /\ Len(mailbox) = 1

\* C9: with SMTP_HOST, SMTP_USER or SMTP_PASS unset or empty, send_email
\* ends with the RuntimeError of the credentials test, no connection opened
\* and nothing sent.
C9_MissingCredentialsRaiseRuntimeError ==
  (/\ ~(Truthy(env["SMTP_HOST"]) /\ Truthy(env["SMTP_USER"]) /\ Truthy(env["SMTP_PASS"]))
   /\ Entered("send_email")) =>
    /\ err = "RuntimeError"
    /\ smtpConns = 0
    /\ mailbox = <<>>

\* C10: in the scheduling loop a run that raises is the last run: the
\* process ends with status 1 and that exception, nothing is run or sent
\* afterwards; the only other end of the loop is Ctrl+C, with status 0.
C10_NoRecoveryInLoop ==
  Mode = "schedule" =>
    /\ \A i \in 1..(Len(runLog) - 1) : runLog[i] = "ok"
    /\ runs = Len(runLog) + (IF pc \in RunPcs \cup {"raised"} THEN 1 ELSE 0)
    /\ Len(mailbox) <= Len(sendCalls) /\ Len(sendCalls) <= runs
    /\ ~Entered("send_email") => Len(mailbox) = Count(runLog, "ok")
    /\ (runLog /= <<>> /\ Last(runLog) /= "ok") => pc = "exited"
    /\ pc = "exited" =>
         \/ /\ exitStatus = 0
            /\ err = "none"
            /\ Last(stdout) = "Stopped."
         \/ /\ exitStatus = 1
            /\ err \notin {"none", "KeyboardInterrupt"}
            /\ Last(runLog) = err

C10_Witness ==
  /\ Mode = "schedule"
  /\ pc = "exited"
  /\ runLog = <<"ok", "ConnectionRefusedError">>
  /\ exitStatus = 1
  /\ Len(mailbox) = 1

====
